---------------------------- MODULE Spec2Model ----------------------------
(***************************************************************************)
(* Model of the HealthGuard gateway (src/main.py) and of the RAG           *)
(* orchestrator (src/rag_server.py).                                       *)
(*                                                                         *)
(* Both services run on a single asyncio event loop: a coroutine runs      *)
(* without interruption from one await of network I/O to the next.  An     *)
(* action of this model is one such run: it starts when a request arrives  *)
(* or an HTTP call settles and ends when the handler suspends on its next  *)
(* HTTP call or returns its response.                                      *)
(*                                                                         *)
(* Confidence values are kept in tenths (0.7 is 7).                        *)
(***************************************************************************)
EXTENDS Integers, Sequences, FiniteSets, Bags, TLC

\* ------------------------------------------------------------ bounds
\* Number of gateway requests that can be in progress at the same time.
NumHandlers == 2
\* The same, where the requests are followed up to the body they return.
NumQueryHandlers == 1
\* Number of /query requests of the orchestrator in progress at the same time.
NumRagQueries == 1
\* The wall clock stops advancing once it would pass MaxTime seconds.
MaxTime == 61

\* --------------------------------------------------- program constants
MAX_FAILURES == 3
CIRCUIT_TIMEOUT == 60

\* Python's None where a time is expected is the empty sequence, a time t is
\* <<t>>; where a JSON body is expected it is NoneBody.
NoTime == <<>>
NoneBody == [status |-> "<None>", data |-> <<>>]
UnsetBody == [status |-> "<unset>", data |-> <<>>]

\* The keys of SERVICES, in the order the dict literal lists them.
SERVICES == <<"hospital", "insurance", "rag">>
ServiceNames == {SERVICES[i] : i \in 1..Len(SERVICES)}


\* The clock is read with datetime.now(); between two steps of the event
\* loop it advances by the cooldown exactly, or by one second more.
TickSteps == {CIRCUIT_TIMEOUT, CIRCUIT_TIMEOUT + 1}

VARIABLES
    circuit_breaker,   \* main.py: service name -> {failures, last_failure, open}
    now,               \* the wall clock, in seconds
    handler,           \* the bag of gateway requests suspended on an HTTP call
    recorded,          \* history: failures recorded per service since its last reset
    last,              \* history: what the last step of the gateway did
    service_status,    \* rag_server.py: the health flag of each data dependency
    monitor,           \* where startup_event and then monitor_services stand
    refresh,           \* where the handler of /refresh-services stands
    rquery,            \* the bag of /query requests of the orchestrator in progress
    consecutive,       \* history: failed orchestrator calls in a row, per dependency
    rlast,             \* history: what the last step of the orchestrator did
    reach              \* environment: "up" once a dependency answers /health with 200 for good

gvars == <<circuit_breaker, now, handler, recorded, last>>
rvars == <<service_status, monitor, refresh, rquery, consecutive, rlast, reach>>
vars == <<gvars, rvars>>

\* ------------------------------------------------------ circuit breaker

ClosedBreaker == [failures |-> 0, last_failure |-> NoTime, open |-> FALSE]

\* Faulty variant: the cooldown is taken to be over once 60 seconds have
\* passed, not once more than 60 have.
should_call_service_at_timeout(cb, service_name, t) ==
    LET breaker == cb[service_name] IN
    IF ~breaker.open
    THEN [ret |-> TRUE, cb |-> cb]
    ELSE IF breaker.last_failure # NoTime
            /\ t - breaker.last_failure[1] >= CIRCUIT_TIMEOUT
         THEN [ret |-> TRUE,
               cb  |-> [cb EXCEPT ![service_name] =
                          [failures |-> 0, last_failure |-> NoTime, open |-> FALSE]]]
         ELSE [ret |-> FALSE, cb |-> cb]

\* Faulty variant: the cooldown reset clears the count and leaves open set.
should_call_service_leaves_open(cb, service_name, t) ==
    LET breaker == cb[service_name] IN
    IF ~breaker.open
    THEN [ret |-> TRUE, cb |-> cb]
    ELSE IF breaker.last_failure # NoTime
            /\ t - breaker.last_failure[1] > CIRCUIT_TIMEOUT
         THEN [ret |-> TRUE,
               cb  |-> [cb EXCEPT ![service_name] =
                          [failures |-> 0, last_failure |-> NoTime, open |-> TRUE]]]
         ELSE [ret |-> FALSE, cb |-> cb]

\* should_call_service: the value returned and the breaker table it leaves.
should_call_service(cb, service_name, t) ==
    LET breaker == cb[service_name] IN
    IF ~breaker.open
    THEN [ret |-> TRUE, cb |-> cb]
    ELSE IF breaker.last_failure # NoTime
            /\ t - breaker.last_failure[1] > CIRCUIT_TIMEOUT
         THEN [ret |-> TRUE,
               cb  |-> [cb EXCEPT ![service_name] =
                          [failures |-> 0, last_failure |-> NoTime, open |-> FALSE]]]
         ELSE [ret |-> FALSE, cb |-> cb]

\* Faulty variant: an increment past the threshold is lost.
record_service_failure_saturates(cb, service_name, t) ==
    LET failures == IF cb[service_name].failures < MAX_FAILURES
                    THEN cb[service_name].failures + 1
                    ELSE MAX_FAILURES IN
    [cb EXCEPT ![service_name] =
        [failures     |-> failures,
         last_failure |-> <<t>>,
         open         |-> IF failures >= MAX_FAILURES THEN TRUE ELSE @.open]]

\* Faulty variant: the time of the failure is not recorded.
record_service_failure_keeps_time(cb, service_name, t) ==
    LET failures == cb[service_name].failures + 1 IN
    [cb EXCEPT ![service_name] =
        [failures     |-> failures,
         last_failure |-> @.last_failure,
         open         |-> IF failures >= MAX_FAILURES THEN TRUE ELSE @.open]]

\* Faulty variant: the breaker opens only past the threshold.
record_service_failure_past_threshold(cb, service_name, t) ==
    LET failures == cb[service_name].failures + 1 IN
    [cb EXCEPT ![service_name] =
        [failures     |-> failures,
         last_failure |-> <<t>>,
         open         |-> IF failures > MAX_FAILURES THEN TRUE ELSE @.open]]

record_service_failure(cb, service_name, t) ==
    LET failures == cb[service_name].failures + 1 IN
    [cb EXCEPT ![service_name] =
        [failures     |-> failures,
         last_failure |-> <<t>>,
         open         |-> IF failures >= MAX_FAILURES THEN TRUE ELSE @.open]]

\* Faulty variant: a success closes the breaker of every dependency.
record_service_success_closes_all(cb, service_name) ==
    IF cb[service_name].failures > 0
    THEN [s \in DOMAIN cb |->
            [failures |-> 0, last_failure |-> NoTime, open |-> FALSE]]
    ELSE cb

\* Faulty variant: a success clears the count and the time, not open.
record_service_success_keeps_open(cb, service_name) ==
    IF cb[service_name].failures > 0
    THEN [cb EXCEPT ![service_name] =
            [failures |-> 0, last_failure |-> NoTime, open |-> @.open]]
    ELSE cb

record_service_success(cb, service_name) ==
    IF cb[service_name].failures > 0
    THEN [cb EXCEPT ![service_name] =
            [failures |-> 0, last_failure |-> NoTime, open |-> FALSE]]
    ELSE cb


\* ------------------------------------------------------ HTTP outcomes

\* A JSON body a dependency can answer with.  EmptyBody is a body Python
\* takes for false ({}); an item "bad" lacks the keys the gateway renders.
EmptyBody == [status |-> "<absent>", data |-> <<>>]

Bodies ==
    { EmptyBody,
      [status |-> "success", data |-> <<>>],
      [status |-> "success", data |-> <<"i1", "i2", "i3">>],
      [status |-> "success", data |-> <<"bad">>],
      [status |-> "error",   data |-> <<>>] }

\* The one body of the runs that follow the breakers and not the bodies.
PlainBodies == { [status |-> "success", data |-> <<"i1", "i2", "i3">>] }

\* The exceptions call_service tells apart: httpx.TimeoutException,
\* httpx.RequestError, httpx.HTTPStatusError (raise_for_status on a non-2xx
\* answer) and any other Exception (such as a 2xx answer that is not JSON).
FailureKinds == {"timeout", "request_error", "http_status", "unexpected"}

\* How one awaited HTTP request settles in call_service: with a 2xx JSON
\* body drawn from B or with an exception drawn from K.
HttpOutcomes(B, K) ==
    { [kind |-> "ok", body |-> b] : b \in B }
    \cup { [kind |-> k, body |-> NoneBody] : k \in K }

\* Python truth value of what call_service returned.
Truthy(result) == result # NoneBody /\ result # EmptyBody

\* ------------------------------------------------------- call_service

\* Faulty variant: a denied call is recorded as a failure.
call_service_enter_counts_denial(cb, service_name, t) ==
    LET e == should_call_service(cb, service_name, t) IN
    IF ~e.ret
    THEN [permit |-> FALSE, cb |-> record_service_failure(e.cb, service_name, t),
          http |-> 0]
    ELSE [permit |-> TRUE,  cb |-> e.cb, http |-> 1]

\* call_service up to its await: the breaker is consulted and, when it
\* permits the call, one HTTP request is sent.
call_service_enter(cb, service_name, t) ==
    LET e == should_call_service(cb, service_name, t) IN
    IF ~e.ret
    THEN [permit |-> FALSE, cb |-> e.cb, http |-> 0]
    ELSE [permit |-> TRUE,  cb |-> e.cb, http |-> 1]

\* Faulty variant: a non-2xx answer is not recorded.
call_service_return_drops_status(cb, service_name, t, outcome) ==
    IF outcome.kind = "ok"
    THEN [cb   |-> record_service_success(cb, service_name),
          ret  |-> outcome.body, succ |-> 1, fail |-> 0]
    ELSE IF outcome.kind = "http_status"
    THEN [cb   |-> cb, ret |-> NoneBody, succ |-> 0, fail |-> 0]
    ELSE [cb   |-> record_service_failure(cb, service_name, t),
          ret  |-> NoneBody, succ |-> 0, fail |-> 1]

\* call_service from the point its HTTP request settles.
call_service_return(cb, service_name, t, outcome) ==
    IF outcome.kind = "ok"
    THEN [cb   |-> record_service_success(cb, service_name),
          ret  |-> outcome.body, succ |-> 1, fail |-> 0]
    ELSE [cb   |-> record_service_failure(cb, service_name, t),
          ret  |-> NoneBody, succ |-> 0, fail |-> 1]

\* --------------------------------------------------------- handlers

Kinds == {"query", "hospital_search", "insurance_search"}

NoResp == [status |-> "none"]

IdleHandler ==
    [pc   |-> "idle", kind |-> "none", svc |-> "none", todo |-> <<>>,
     data |-> [s \in ServiceNames |-> UnsetBody]]

\* The calls a handler makes, in order, when it starts.
FirstCalls(kind) ==
    CASE kind = "query"            -> <<"rag">>
      [] kind = "hospital_search"  -> <<"hospital">>
      [] kind = "insurance_search" -> <<"insurance">>

Min(a, b) == IF a < b THEN a ELSE b

FirstTwo(items) == SubSeq(items, 1, Min(2, Len(items)))

IsSuccessBody(result) == Truthy(result) /\ result.status = "success"

\* Rendering hospital['name'] or plan['plan_name'] of an item without the
\* key raises KeyError.
Raises(result) ==
    IsSuccessBody(result)
    /\ \E i \in 1..Len(FirstTwo(result.data)) : result.data[i] = "bad"

Lines(title, result) ==
    IF IsSuccessBody(result) /\ result.data # <<>>
    THEN <<<<title, Len(result.data)>>>> \o FirstTwo(result.data)
    ELSE <<>>

\* Faulty variant: a body counts as a source whatever its status.
process_query_response_any_status(rag_response, hospital_data, insurance_data) ==
    IF Truthy(rag_response)
    THEN [status |-> "success", data |-> rag_response]
    ELSE IF Raises(hospital_data) \/ Raises(insurance_data)
    THEN [status |-> "error", confidence |-> 0,
          answer |-> <<"technical difficulties">>, sources |-> {"error"}]
    ELSE LET sources == {s \in {"hospital", "insurance"} :
                            Truthy(IF s = "hospital" THEN hospital_data
                                   ELSE insurance_data)}
         IN [status     |-> "degraded",
             confidence |-> IF sources # {} THEN 7 ELSE 1,
             answer     |-> IF sources = {}
                            THEN <<"temporarily unavailable">>
                            ELSE <<"I found the following information:">>
                                 \o Lines("Hospitals", hospital_data)
                                 \o Lines("Insurance Plans", insurance_data),
             sources    |-> sources]

\* process_query of the gateway, the part after its calls.
process_query_response(rag_response, hospital_data, insurance_data) ==
    IF Truthy(rag_response)
    THEN [status |-> "success", data |-> rag_response]
    ELSE IF Raises(hospital_data) \/ Raises(insurance_data)
    THEN [status |-> "error", confidence |-> 0,
          answer |-> <<"technical difficulties">>, sources |-> {"error"}]
    ELSE LET sources == {s \in {"hospital", "insurance"} :
                            IsSuccessBody(IF s = "hospital" THEN hospital_data
                                          ELSE insurance_data)}
         IN [status     |-> "degraded",
             confidence |-> IF sources # {} THEN 7 ELSE 1,
             answer     |-> IF sources = {}
                            THEN <<"temporarily unavailable">>
                            ELSE <<"I found the following information:">>
                                 \o Lines("Hospitals", hospital_data)
                                 \o Lines("Insurance Plans", insurance_data),
             sources    |-> sources]

search_direct_response(result) ==
    [status |-> IF Truthy(result) THEN "success" ELSE "error"]

\* The response a handler returns once it has no call left to make.
Response(h) ==
    CASE h.kind = "query" ->
            process_query_response(h.data["rag"], h.data["hospital"],
                                   h.data["insurance"])
      [] h.kind = "hospital_search" -> search_direct_response(h.data["hospital"])
      [] h.kind = "insurance_search" -> search_direct_response(h.data["insurance"])

\* What a handler does with the value call_service returned for service s:
\* process_query falls back to the direct calls when the rag call gave
\* nothing.
AfterCall(h, s, result) ==
    LET h1 == [h EXCEPT !.data[s] = result] IN
    IF h.kind = "query" /\ s = "rag" /\ ~Truthy(result)
    THEN [h1 EXCEPT !.todo = <<"hospital", "insurance">>]
    ELSE h1

\* The handler runs until it suspends on an HTTP request or returns its
\* response.  A call the breaker denies returns None at once and the handler
\* goes on.  rec is the history of failures recorded, which a cooldown reset
\* clears; events lists the call_service invocations entered in this run.
RECURSIVE RunToAwait(_, _, _, _, _)
RunToAwait(cb, h, rec, events, t) ==
    IF h.todo = <<>>
    THEN [cb |-> cb, h |-> IdleHandler, rec |-> rec, events |-> events,
          kind |-> h.kind, resp |-> Response(h), data |-> h.data]
    ELSE LET s == Head(h.todo)
             e == call_service_enter(cb, s, t)
             h1 == [h EXCEPT !.todo = Tail(@)]
             rec1 == IF cb[s].open /\ e.permit
                     THEN [rec EXCEPT ![s] = 0] ELSE rec
             ev == Append(events, [svc |-> s, pre |-> cb[s],
                                   permit |-> e.permit, http |-> e.http])
         IN IF e.permit
            THEN [cb |-> e.cb, rec |-> rec1, events |-> ev,
                  h |-> [h1 EXCEPT !.pc = "await", !.svc = s],
                  kind |-> h.kind, resp |-> NoResp, data |-> h1.data]
            ELSE RunToAwait(e.cb, AfterCall(h1, s, NoneBody), rec1, ev, t)

NoReturn == [svc |-> "none", pre |-> ClosedBreaker, kind |-> "none",
             succ |-> 0, fail |-> 0]

NoStep == [op |-> "init", kind |-> "none", resp |-> NoResp,
           data |-> IdleHandler.data, events |-> <<>>,
           return |-> NoReturn, open |-> {}]

\* ------------------------------------------- orchestrator (rag_server.py)

\* hospital first, insurance second: the order of the health checks and of
\* the tasks handed to asyncio.gather.
DataOrder == <<"hospital", "insurance">>
DataServices == {DataOrder[i] : i \in 1..Len(DataOrder)}

\* A text is the sequence of its characters.
UpperCase == <<"A", "B", "C", "D", "E", "F", "G", "H", "I", "J", "K", "L", "M",
               "N", "O", "P", "Q", "R", "S", "T", "U", "V", "W", "X", "Y", "Z">>
LowerCase == <<"a", "b", "c", "d", "e", "f", "g", "h", "i", "j", "k", "l", "m",
               "n", "o", "p", "q", "r", "s", "t", "u", "v", "w", "x", "y", "z">>

\* Faulty variant: the query is matched as typed.
Lower_as_typed(text) == text

\* str.lower()
Lower(text) ==
    [i \in 1..Len(text) |->
        IF \E k \in 1..Len(UpperCase) : UpperCase[k] = text[i]
        THEN LowerCase[CHOOSE k \in 1..Len(UpperCase) : UpperCase[k] = text[i]]
        ELSE text[i]]

\* word in text
Contains(text, word) ==
    \E i \in 0..(Len(text) - Len(word)) :
        \A j \in 1..Len(word) : text[i + j] = word[j]

HospitalWords ==
    { <<"h", "o", "s", "p", "i", "t", "a", "l">>,
      <<"d", "o", "c", "t", "o", "r">>,
      <<"m", "e", "d", "i", "c", "a", "l">>,
      <<"t", "r", "e", "a", "t", "m", "e", "n", "t">>,
      <<"e", "m", "e", "r", "g", "e", "n", "c", "y">> }

InsuranceWords ==
    { <<"i", "n", "s", "u", "r", "a", "n", "c", "e">>,
      <<"p", "l", "a", "n">>,
      <<"c", "o", "v", "e", "r", "a", "g", "e">>,
      <<"p", "r", "e", "m", "i", "u", "m">>,
      <<"d", "e", "d", "u", "c", "t", "i", "b", "l", "e">> }

\* The queries sent to the orchestrator: one that names a hospital word
\* only, one an insurance word only, one both and one neither.
\* "Find cardiology hospital"
HospitalQuery ==
    <<"F", "i", "n", "d", " ", "c", "a", "r", "d", "i", "o", "l", "o", "g", "y", " ", "h", "o", "s", "p", "i", "t", "a", "l">>

\* "Cheap Insurance Plan"
InsuranceQuery ==
    <<"C", "h", "e", "a", "p", " ", "I", "n", "s", "u", "r", "a", "n", "c", "e", " ", "P", "l", "a", "n">>

\* "hospital insurance"
BothQuery ==
    <<"h", "o", "s", "p", "i", "t", "a", "l", " ", "i", "n", "s", "u", "r", "a", "n", "c", "e">>

\* "hello"
NeitherQuery == <<"h", "e", "l", "l", "o">>

Queries == {HospitalQuery, InsuranceQuery, BothQuery, NeitherQuery}

\* The bodies a data dependency answers /search with.
RagBodies ==
    { EmptyBody,
      [status |-> "success", data |-> <<>>],
      [status |-> "success", data |-> <<"i1", "i2", "i3", "i4">>],
      [status |-> "success", data |-> <<"bad">>],
      [status |-> "error",   data |-> <<>>] }

\* check_service_health: True for an answer with status 200, False for any
\* other answer and for any exception.
HealthOutcomes == {"200", "non200", "timeout", "exception"}

check_service_health(outcome) == outcome = "200"

\* safe_service_call from the point its HTTP request settles.
safe_service_call(outcome) ==
    IF outcome.kind = "ok" THEN outcome.body ELSE NoneBody

\* Faulty variant: only the first item is rendered.
FirstThree_only_first(items) == SubSeq(items, 1, Min(1, Len(items)))

FirstThree(items) == SubSeq(items, 1, Min(3, Len(items)))

\* Faulty variant: an empty result set counts as a result.
HasItems_counts_empty(data) == IsSuccessBody(data)

HasItems(data) == IsSuccessBody(data) /\ data.data # <<>>

\* f"I found {len(hospitals)} relevant hospitals for you:"
Header(what, count) == "I found " \o ToString(count) \o " relevant " \o what

\* Faulty variant: a fallback keeps the confidence of the results left out.
generate_response_keeps_confidence(query, hospital_data, insurance_data, status) ==
    LET query_lower == Lower(query)
        is_hospital_query ==
            \E word \in HospitalWords : Contains(query_lower, word)
        is_insurance_query ==
            \E word \in InsuranceWords : Contains(query_lower, word)
        hospital_text ==
            HasItems(hospital_data) /\ (is_hospital_query \/ ~is_insurance_query)
        insurance_text ==
            HasItems(insurance_data) /\ (is_insurance_query \/ ~is_hospital_query)
        hospital_part ==
            IF hospital_text
            THEN <<Header("hospitals", Len(hospital_data.data))>>
                 \o FirstThree(hospital_data.data)
            ELSE <<>>
        insurance_part ==
            IF insurance_text
            THEN <<Header("insurance plans", Len(insurance_data.data))>>
                 \o FirstThree(insurance_data.data)
            ELSE <<>>
        response_parts == hospital_part \o insurance_part
        confidence == (IF HasItems(hospital_data) THEN 4 ELSE 0)
                      + (IF HasItems(insurance_data) THEN 4 ELSE 0)
    IN IF \E i \in 1..Len(response_parts) : response_parts[i] = "bad"
       THEN [raises |-> TRUE, answer |-> <<>>, confidence |-> 0]
       ELSE IF response_parts = <<>>
       THEN IF ~status["hospital"] /\ ~status["insurance"]
            THEN [raises |-> FALSE, confidence |-> confidence + 1,
                  answer |-> <<"healthcare services are temporarily unavailable">>]
            ELSE IF ~status["hospital"]
            THEN [raises |-> FALSE, confidence |-> confidence + 2,
                  answer |-> <<"Hospital information is currently unavailable">>]
            ELSE IF ~status["insurance"]
            THEN [raises |-> FALSE, confidence |-> confidence + 2,
                  answer |-> <<"Insurance information is currently unavailable">>]
            ELSE [raises |-> FALSE, confidence |-> confidence + 3,
                  answer |-> <<"our services are available, please rephrase">>]
       ELSE IF confidence > 5
       THEN [raises |-> FALSE, confidence |-> Min(confidence + 2, 9),
             answer |-> response_parts \o <<"contact the providers directly">>]
       ELSE [raises |-> FALSE, confidence |-> confidence,
             answer |-> response_parts]

\* generate_response: whether it raises, and the answer and confidence it
\* returns otherwise.  status is service_status as read at this point.
generate_response(query, hospital_data, insurance_data, status) ==
    LET query_lower == Lower(query)
        is_hospital_query ==
            \E word \in HospitalWords : Contains(query_lower, word)
        is_insurance_query ==
            \E word \in InsuranceWords : Contains(query_lower, word)
        hospital_text ==
            HasItems(hospital_data) /\ (is_hospital_query \/ ~is_insurance_query)
        insurance_text ==
            HasItems(insurance_data) /\ (is_insurance_query \/ ~is_hospital_query)
        hospital_part ==
            IF hospital_text
            THEN <<Header("hospitals", Len(hospital_data.data))>>
                 \o FirstThree(hospital_data.data)
            ELSE <<>>
        insurance_part ==
            IF insurance_text
            THEN <<Header("insurance plans", Len(insurance_data.data))>>
                 \o FirstThree(insurance_data.data)
            ELSE <<>>
        response_parts == hospital_part \o insurance_part
        confidence == (IF HasItems(hospital_data) THEN 4 ELSE 0)
                      + (IF HasItems(insurance_data) THEN 4 ELSE 0)
    IN IF \E i \in 1..Len(response_parts) : response_parts[i] = "bad"
       THEN [raises |-> TRUE, answer |-> <<>>, confidence |-> 0]
       ELSE IF response_parts = <<>>
       THEN IF ~status["hospital"] /\ ~status["insurance"]
            THEN [raises |-> FALSE, confidence |-> 1,
                  answer |-> <<"healthcare services are temporarily unavailable">>]
            ELSE IF ~status["hospital"]
            THEN [raises |-> FALSE, confidence |-> 2,
                  answer |-> <<"Hospital information is currently unavailable">>]
            ELSE IF ~status["insurance"]
            THEN [raises |-> FALSE, confidence |-> 2,
                  answer |-> <<"Insurance information is currently unavailable">>]
            ELSE [raises |-> FALSE, confidence |-> 3,
                  answer |-> <<"our services are available, please rephrase">>]
       ELSE IF confidence > 5
       THEN [raises |-> FALSE, confidence |-> Min(confidence + 2, 9),
             answer |-> response_parts \o <<"contact the providers directly">>]
       ELSE [raises |-> FALSE, confidence |-> confidence,
             answer |-> response_parts]

Placeholder(d) == [status |-> "unavailable", data |-> <<d, "is currently down">>]

\* Faulty variant: a dependency whose call gave nothing counts as flagged
\* unhealthy when the fallback is selected.
rag_process_query_response_by_outcome(query, result, status) ==
    LET g == generate_response(query, result["hospital"], result["insurance"],
                               [d \in DataServices |->
                                   status[d] /\ result[d] # NoneBody])
    IN IF g.raises
       THEN [status |-> "error",
             answer |-> <<"I'm experiencing some technical difficulties">>,
             sources |-> [error |-> "exception"],
             confidence |-> 0]
       ELSE [status |-> "success",
             answer |-> g.answer,
             sources |-> [d \in DataServices |->
                            [available |-> result[d] # NoneBody,
                             data |-> IF Truthy(result[d]) THEN result[d]
                                      ELSE Placeholder(d)]],
             confidence |-> g.confidence]

\* process_query of the orchestrator, from the point asyncio.gather returns.
rag_process_query_response(query, result, status) ==
    LET g == generate_response(query, result["hospital"], result["insurance"],
                               status)
    IN IF g.raises
       THEN [status |-> "error",
             answer |-> <<"I'm experiencing some technical difficulties">>,
             sources |-> [error |-> "exception"],
             confidence |-> 0]
       ELSE [status |-> "success",
             answer |-> g.answer,
             sources |-> [d \in DataServices |->
                            [available |-> result[d] # NoneBody,
                             data |-> IF Truthy(result[d]) THEN result[d]
                                      ELSE Placeholder(d)]],
             confidence |-> g.confidence]

NoRagStep == [op |-> "init", query |-> <<>>, sent |-> <<>>, tripped |-> {},
              calls |-> [d \in DataServices |-> "none"],
              result |-> [d \in DataServices |-> UnsetBody],
              status |-> [d \in DataServices |-> FALSE],
              resp |-> NoResp, dep |-> "none", ok |-> FALSE]

\* ----------------------------------------------------------- actions

Init ==
    /\ circuit_breaker = [s \in ServiceNames |-> ClosedBreaker]
    /\ now = 0
    /\ handler = EmptyBag
    /\ recorded = [s \in ServiceNames |-> 0]
    /\ last = NoStep
    /\ service_status = [d \in DataServices |-> FALSE]
    /\ monitor = [pc |-> "startup", at |-> 1]
    /\ refresh = [pc |-> "idle", at |-> 1]
    /\ rquery = EmptyBag
    /\ consecutive = [d \in DataServices |-> 0]
    /\ rlast = NoRagStep
    /\ reach = [d \in DataServices |-> "any"]

\* The handlers in progress once handler h has run: h itself when it has
\* suspended, none when it has returned its response.
Suspended(h) == IF h.pc = "await" THEN SetToBag({h}) ELSE EmptyBag

\* A request arrives while fewer than n are in progress, and its handler
\* runs up to its first await.
Start(n, kind) ==
    /\ BagCardinality(handler) < n
    /\ LET h0 == [IdleHandler EXCEPT !.kind = kind, !.todo = FirstCalls(kind)]
           run == RunToAwait(circuit_breaker, h0, recorded, <<>>, now)
       IN /\ circuit_breaker' = run.cb
          /\ handler' = handler (+) Suspended(run.h)
          /\ recorded' = run.rec
          /\ last' = [NoStep EXCEPT !.op = "start", !.kind = kind,
                                    !.resp = run.resp, !.data = run.data,
                                    !.events = run.events]
    /\ UNCHANGED <<now, rvars>>

\* The HTTP request a handler waits for settles; the handler records the
\* outcome and runs up to its next await or to its response.
Complete(h, outcome) ==
    /\ BagIn(h, handler)
    /\ LET s   == h.svc
           c   == call_service_return(circuit_breaker, s, now, outcome)
           rec == [recorded EXCEPT ![s] = IF c.fail > 0 THEN @ + c.fail ELSE 0]
           run == RunToAwait(c.cb, AfterCall(h, s, c.ret), rec, <<>>, now)
       IN /\ circuit_breaker' = run.cb
          /\ handler' = (handler (-) SetToBag({h})) (+) Suspended(run.h)
          /\ recorded' = run.rec
          /\ last' = [NoStep EXCEPT !.op = "complete", !.kind = h.kind,
                                    !.resp = run.resp, !.data = run.data,
                                    !.events = run.events,
                                    !.return = [svc |-> s,
                                                pre |-> circuit_breaker[s],
                                                kind |-> outcome.kind,
                                                succ |-> c.succ,
                                                fail |-> c.fail]]
    /\ UNCHANGED <<now, rvars>>

\* Faulty variant: the reset clears the counts and leaves open as it was.
reset_circuit_breakers_counts_only ==
    /\ circuit_breaker' = [s \in ServiceNames |->
                             [failures |-> 0, last_failure |-> NoTime,
                              open |-> circuit_breaker[s].open]]
    /\ recorded' = [s \in ServiceNames |-> 0]
    /\ last' = [NoStep EXCEPT !.op = "reset",
                  !.open = {s \in ServiceNames : circuit_breaker[s].open}]
    /\ UNCHANGED <<now, handler, rvars>>

\* POST /api/admin/reset-breakers
reset_circuit_breakers ==
    /\ circuit_breaker' = [s \in ServiceNames |->
                             [failures |-> 0, last_failure |-> NoTime,
                              open |-> FALSE]]
    /\ recorded' = [s \in ServiceNames |-> 0]
    /\ last' = [NoStep EXCEPT !.op = "reset",
                  !.open = {s \in ServiceNames : circuit_breaker[s].open}]
    /\ UNCHANGED <<now, handler, rvars>>

\* Time passes.
Tick(d) ==
    /\ now + d <= MaxTime
    /\ now' = now + d
    /\ last' = [NoStep EXCEPT !.op = "tick"]
    /\ UNCHANGED <<circuit_breaker, handler, recorded, rvars>>

\* The gateway under concurrent requests and a running clock.  The breakers
\* read neither the body nor the kind of exception, so one of each is drawn.
Next ==
    \/ \E kind \in Kinds : Start(NumHandlers, kind)
    \/ \E h \in BagToSet(handler),
          outcome \in HttpOutcomes(PlainBodies, {"timeout"}) :
            Complete(h, outcome)
    \/ reset_circuit_breakers
    \/ \E d \in TickSteps : Tick(d)

Spec == Init /\ [][Next]_vars

\* The gateway followed up to the bodies it returns: every kind of body and
\* of exception is drawn; the clock stands still.
NextQuery ==
    \/ \E kind \in Kinds : Start(NumQueryHandlers, kind)
    \/ \E h \in BagToSet(handler),
          outcome \in HttpOutcomes(Bodies, FailureKinds) :
            Complete(h, outcome)
    \/ reset_circuit_breakers

SpecQuery == Init /\ [][NextQuery]_vars

\* ------------------------------------------------- orchestrator actions

\* service_status.<d> = await check_service_health(...): the assignment made
\* when the health check of dependency d settles.  A run of failed calls
\* ends when the flag is found false.
SetFlag(d, outcome) ==
    /\ reach[d] = "up" => outcome = "200"
    /\ service_status' = [service_status EXCEPT ![d] = check_service_health(outcome)]
    /\ consecutive' = [consecutive EXCEPT
                         ![d] = IF check_service_health(outcome) THEN @ ELSE 0]
    /\ rlast' = [NoRagStep EXCEPT !.op = "health", !.dep = d,
                                  !.ok = check_service_health(outcome)]

\* startup_event: the two health checks in turn, then the monitor task is
\* created.  The server takes no request before startup_event has returned.
startup_event(outcome) ==
    /\ monitor.pc = "startup"
    /\ SetFlag(DataOrder[monitor.at], outcome)
    /\ monitor' = IF monitor.at < Len(DataOrder)
                  THEN [monitor EXCEPT !.at = @ + 1]
                  ELSE [pc |-> "loop", at |-> 1]
    /\ UNCHANGED <<refresh, rquery, reach, gvars>>

\* Faulty variant: a failed health check ends the monitor loop.
monitor_services_stops_on_failure(outcome) ==
    /\ monitor.pc = "loop"
    /\ SetFlag(DataOrder[monitor.at], outcome)
    /\ monitor' = IF ~check_service_health(outcome)
                  THEN [pc |-> "stopped", at |-> 1]
                  ELSE IF monitor.at < Len(DataOrder)
                  THEN [monitor EXCEPT !.at = @ + 1]
                  ELSE [pc |-> "sleep", at |-> 1]
    /\ UNCHANGED <<refresh, rquery, reach, gvars>>

\* monitor_services: the two health checks in turn, then the sleep.
monitor_services(outcome) ==
    /\ monitor.pc = "loop"
    /\ SetFlag(DataOrder[monitor.at], outcome)
    /\ monitor' = IF monitor.at < Len(DataOrder)
                  THEN [monitor EXCEPT !.at = @ + 1]
                  ELSE [pc |-> "sleep", at |-> 1]
    /\ UNCHANGED <<refresh, rquery, reach, gvars>>

\* monitor_services: asyncio.sleep(30) returns and the loop starts over.
monitor_wakes ==
    /\ monitor.pc = "sleep"
    /\ monitor' = [pc |-> "loop", at |-> 1]
    /\ rlast' = [NoRagStep EXCEPT !.op = "wake"]
    /\ UNCHANGED <<service_status, consecutive, refresh, rquery, reach, gvars>>

\* POST /refresh-services arrives and sends its first health check.
refresh_service_status_start ==
    /\ monitor.pc # "startup"
    /\ refresh.pc = "idle"
    /\ refresh' = [pc |-> "check", at |-> 1]
    /\ rlast' = [NoRagStep EXCEPT !.op = "refresh"]
    /\ UNCHANGED <<service_status, consecutive, monitor, rquery, reach, gvars>>

\* refresh_service_status: the two health checks in turn, then the answer.
refresh_service_status(outcome) ==
    /\ refresh.pc = "check"
    /\ SetFlag(DataOrder[refresh.at], outcome)
    /\ refresh' = IF refresh.at < Len(DataOrder)
                  THEN [refresh EXCEPT !.at = @ + 1]
                  ELSE [pc |-> "idle", at |-> 1]
    /\ UNCHANGED <<monitor, rquery, reach, gvars>>

\* Faulty variant: every dependency is called, whatever its flag.
process_query_start_ignores_flags(n, query) ==
    /\ monitor.pc # "startup"
    /\ BagCardinality(rquery) < n
    /\ LET sent == DataServices
           h == [query  |-> query,
                 calls  |-> [d \in DataServices |->
                               IF d \in sent THEN "inflight" ELSE "skipped"],
                 result |-> [d \in DataServices |->
                               IF d \in sent THEN UnsetBody ELSE NoneBody]]
       IN /\ rquery' = rquery (+) SetToBag({h})
          /\ rlast' = [NoRagStep EXCEPT
                         !.op = "dispatch", !.query = query,
                         !.sent = SelectSeq(DataOrder, LAMBDA d : d \in sent),
                         !.tripped = {d \in sent : consecutive[d] >= 3},
                         !.calls = h.calls, !.status = service_status]
    /\ UNCHANGED <<service_status, consecutive, monitor, refresh, reach, gvars>>

\* POST /query arrives while fewer than n are in progress: process_query
\* up to asyncio.gather.  A dependency whose flag is set gets a
\* safe_service_call, which sends its request; the other gets
\* asyncio.sleep(0, result=None).
process_query_start(n, query) ==
    /\ monitor.pc # "startup"
    /\ BagCardinality(rquery) < n
    /\ LET sent == {d \in DataServices : service_status[d]}
           h == [query  |-> query,
                 calls  |-> [d \in DataServices |->
                               IF d \in sent THEN "inflight" ELSE "skipped"],
                 result |-> [d \in DataServices |->
                               IF d \in sent THEN UnsetBody ELSE NoneBody]]
       IN /\ rquery' = rquery (+) SetToBag({h})
          /\ rlast' = [NoRagStep EXCEPT
                         !.op = "dispatch", !.query = query,
                         !.sent = SelectSeq(DataOrder, LAMBDA d : d \in sent),
                         !.tripped = {d \in sent : consecutive[d] >= 3},
                         !.calls = h.calls, !.status = service_status]
    /\ UNCHANGED <<service_status, consecutive, monitor, refresh, reach, gvars>>

\* The request safe_service_call sent to dependency d settles.
safe_service_call_settles(h, d, outcome) ==
    /\ BagIn(h, rquery)
    /\ h.calls[d] = "inflight"
    /\ LET h1 == [h EXCEPT !.calls[d] = IF outcome.kind = "ok" THEN "returned"
                                        ELSE outcome.kind,
                           !.result[d] = safe_service_call(outcome)]
       IN /\ rquery' = (rquery (-) SetToBag({h})) (+) SetToBag({h1})
          /\ rlast' = [NoRagStep EXCEPT
                         !.op = "settle", !.query = h.query, !.calls = h1.calls,
                         !.result = h1.result, !.status = service_status]
    /\ consecutive' = [consecutive EXCEPT
                         ![d] = IF outcome.kind = "ok" \/ ~service_status[d]
                                THEN 0 ELSE Min(3, @ + 1)]
    /\ UNCHANGED <<service_status, monitor, refresh, reach, gvars>>

\* Faulty variant: process_query without its try/except, an exception of
\* generate_response leaves the handler.
process_query_propagates(h) ==
    /\ BagIn(h, rquery)
    /\ \A d \in DataServices : h.calls[d] # "inflight"
    /\ rquery' = rquery (-) SetToBag({h})
    /\ rlast' = [NoRagStep EXCEPT
                   !.op = "respond", !.query = h.query, !.calls = h.calls,
                   !.result = h.result, !.status = service_status,
                   !.resp = IF generate_response(h.query, h.result["hospital"],
                                    h.result["insurance"], service_status).raises
                            THEN [status |-> "exception"]
                            ELSE rag_process_query_response(h.query, h.result,
                                                            service_status)]
    /\ UNCHANGED <<service_status, consecutive, monitor, refresh, reach, gvars>>

\* Faulty variant: the answer is built as soon as one call has settled.
process_query_respond_first_settled(h) ==
    /\ BagIn(h, rquery)
    /\ \E d \in DataServices : h.calls[d] # "inflight"
    /\ rquery' = rquery (-) SetToBag({h})
    /\ rlast' = [NoRagStep EXCEPT
                   !.op = "respond", !.query = h.query, !.calls = h.calls,
                   !.result = h.result, !.status = service_status,
                   !.resp = rag_process_query_response(h.query, h.result,
                                                       service_status)]
    /\ UNCHANGED <<service_status, consecutive, monitor, refresh, reach, gvars>>

\* asyncio.gather has returned: process_query from there to its response.
process_query_respond(h) ==
    /\ BagIn(h, rquery)
    /\ \A d \in DataServices : h.calls[d] # "inflight"
    /\ rquery' = rquery (-) SetToBag({h})
    /\ rlast' = [NoRagStep EXCEPT
                   !.op = "respond", !.query = h.query, !.calls = h.calls,
                   !.result = h.result, !.status = service_status,
                   !.resp = rag_process_query_response(h.query, h.result,
                                                       service_status)]
    /\ UNCHANGED <<service_status, consecutive, monitor, refresh, reach, gvars>>

\* The orchestrator: its health monitor, /refresh-services and /query.
\* The clock stands still.
NextRag ==
    \/ \E outcome \in HealthOutcomes : startup_event(outcome)
    \/ \E outcome \in HealthOutcomes : monitor_services(outcome)
    \/ monitor_wakes
    \/ refresh_service_status_start
    \/ \E outcome \in HealthOutcomes : refresh_service_status(outcome)
    \/ \E query \in Queries : process_query_start(NumRagQueries, query)
    \/ \E h \in BagToSet(rquery), d \in DataServices,
          outcome \in HttpOutcomes(RagBodies, FailureKinds) :
            safe_service_call_settles(h, d, outcome)
    \/ \E h \in BagToSet(rquery) : process_query_respond(h)

SpecRag == Init /\ [][NextRag]_vars

\* From some point on dependency d answers every GET /health with 200
\* within the timeout.
StaysReachable(d) ==
    /\ reach[d] = "any"
    /\ reach' = [reach EXCEPT ![d] = "up"]
    /\ rlast' = [NoRagStep EXCEPT !.op = "reachable", !.dep = d]
    /\ UNCHANGED <<service_status, consecutive, monitor, refresh, rquery, gvars>>

\* The health monitor and /refresh-services, with dependencies that may
\* become reachable for good.
NextMonitor ==
    \/ \E outcome \in HealthOutcomes : startup_event(outcome)
    \/ \E outcome \in HealthOutcomes : monitor_services(outcome)
    \/ monitor_wakes
    \/ refresh_service_status_start
    \/ \E outcome \in HealthOutcomes : refresh_service_status(outcome)
    \/ \E d \in DataServices : StaysReachable(d)

\* Every health check settles, within its 5 s timeout at the latest, and
\* asyncio.sleep(30) returns: the event loop resumes startup_event and
\* monitor_services whenever they wait for one of these.  Nothing requires
\* a request to /refresh-services to arrive.
SpecMonitor ==
    /\ Init
    /\ [][NextMonitor]_vars
    /\ WF_vars(\E outcome \in HealthOutcomes : startup_event(outcome))
    /\ WF_vars(\E outcome \in HealthOutcomes : monitor_services(outcome))
    /\ WF_vars(monitor_wakes)

\* ------------------------------------------------------------ claims

\* The call_service invocations entered in the last step.
Events == {last.events[i] : i \in 1..Len(last.events)}

\* C1: once 3 failures have been recorded for a dependency since its breaker
\* was last reset, the breaker has a last failure time and
\* should_call_service returns false while no more than 60 seconds have
\* passed since it; after 1 or 2 recorded failures it returns true.
C1_ThreeFailuresDeny ==
    \A s \in ServiceNames :
        /\ recorded[s] = 3 =>
              /\ circuit_breaker[s].last_failure # NoTime
              /\ now - circuit_breaker[s].last_failure[1] <= 60 =>
                    ~should_call_service(circuit_breaker, s, now).ret
        /\ recorded[s] \in {1, 2} =>
              should_call_service(circuit_breaker, s, now).ret

\* A call was denied by a breaker that stands at exactly 3 recorded failures.
C1_Witness ==
    \E ev \in Events :
        ~ev.permit /\ recorded[ev.svc] = 3 /\ ev.pre.failures = 3

\* C2: right after record_service_success for a dependency its breaker is
\* {failures 0, last_failure None, open False}, whatever it was before.
C2_SuccessCloses ==
    last.return.succ = 1 =>
        circuit_breaker[last.return.svc] =
            [failures |-> 0, last_failure |-> NoTime, open |-> FALSE]

\* A success was recorded on a breaker that was open.
C2_Witness ==
    last.return.succ = 1 /\ last.return.pre.open /\ last.return.pre.failures >= 3

\* C3: should_call_service on an open breaker returns true and resets the
\* breaker when more than 60 seconds have passed since last_failure, and
\* returns false and leaves the breaker as it was otherwise.
C3_CooldownReset ==
    \A ev \in Events :
        ev.pre.open /\ ev.pre.last_failure # NoTime =>
            IF now - ev.pre.last_failure[1] > 60
            THEN /\ ev.permit
                 /\ circuit_breaker[ev.svc] =
                      [failures |-> 0, last_failure |-> NoTime, open |-> FALSE]
            ELSE /\ ~ev.permit
                 /\ circuit_breaker[ev.svc] = ev.pre

\* A breaker that stood at 4 failures was reset by the cooldown.
C3_Witness ==
    \E ev \in Events :
        /\ ev.pre.open /\ ev.pre.failures = 4 /\ ev.permit
        /\ now - ev.pre.last_failure[1] > 60

\* C4: a breaker is open only if its failure count is at least 3.
C4_OpenOnlyAtThreshold ==
    \A s \in ServiceNames :
        circuit_breaker[s].open => circuit_breaker[s].failures >= 3

\* A breaker is open while a call to its dependency is still in flight.
C4_Witness ==
    \E s \in ServiceNames :
        /\ circuit_breaker[s].open
        /\ \E h \in BagToSet(handler) : h.svc = s

\* C5: right after the admin reset every breaker is {failures 0,
\* last_failure None, open False} and should_call_service returns true for
\* each dependency.
C5_AdminResetClosesAll ==
    last.op = "reset" =>
        \A s \in ServiceNames :
            /\ circuit_breaker[s] =
                 [failures |-> 0, last_failure |-> NoTime, open |-> FALSE]
            /\ should_call_service(circuit_breaker, s, now).ret

\* The admin reset ran with all three breakers open.
C5_Witness ==
    last.op = "reset" /\ last.open = ServiceNames

\* C8: a call the breaker denies returns None, sends no HTTP request and
\* leaves the breaker of its dependency as it was.
C8_DeniedCallIsFree ==
    \A ev \in Events :
        ~ev.permit =>
            /\ ev.http = 0
            /\ last.data[ev.svc] = NoneBody
            /\ circuit_breaker[ev.svc] = ev.pre

\* A call was denied.
C8_Witness ==
    \E ev \in Events : ~ev.permit /\ ev.pre.open

\* The breaker table as a call_service invocation of the last step found it.
TableAt(ev) == [circuit_breaker EXCEPT ![ev.svc] = ev.pre]

\* The /api/query request answered in the last step got None from its rag
\* call: the rag breaker denied the call, or the call failed.
RagGaveNone ==
    last.kind = "query" /\ last.resp # NoResp /\ last.data["rag"] = NoneBody

\* The direct calls were made, each through call_service and so through the
\* breaker of its own dependency.
DirectCallsMade ==
    /\ last.data["hospital"] # UnsetBody
    /\ last.data["insurance"] # UnsetBody
    /\ \A ev \in Events :
         /\ ev.permit = should_call_service(TableAt(ev), ev.svc, now).ret
         /\ ev.http = IF ev.permit THEN 1 ELSE 0

DirectSuccess ==
    \E s \in {"hospital", "insurance"} : last.data[s].status = "success"

\* A status-'success' body holds, among the two items the gateway renders,
\* one without the keys rendered.
RenderingRaises ==
    \E s \in {"hospital", "insurance"} :
        /\ last.data[s].status = "success"
        /\ \E i \in 1..Len(last.data[s].data) :
             i <= 2 /\ last.data[s].data[i] = "bad"

DegradedAnswer ==
    /\ last.resp.status = "degraded"
    /\ last.resp.confidence = IF DirectSuccess THEN 7 ELSE 1
    /\ ~DirectSuccess => last.resp.answer = <<"temporarily unavailable">>

\* C7 as claimed: whenever the rag call is denied or fails the gateway makes
\* the direct calls and answers 'degraded', with confidence 0.7 if a direct
\* call returned a status-'success' body and 0.1 and the 'temporarily
\* unavailable' answer if none did.
C7_AlwaysDegraded ==
    RagGaveNone => DirectCallsMade /\ DegradedAnswer

\* C7 as amended: the same, unless rendering the items of a status-'success'
\* body raises; the gateway then answers 'error' with confidence 0.
C7_DegradedUnlessRenderingRaises ==
    RagGaveNone =>
        /\ DirectCallsMade
        /\ IF RenderingRaises
           THEN last.resp.status = "error" /\ last.resp.confidence = 0
           ELSE DegradedAnswer

\* With the rag breaker open a query was answered 'degraded' with
\* confidence 0.7.
C7_Witness ==
    /\ RagGaveNone
    /\ circuit_breaker["rag"].open
    /\ last.resp.status = "degraded" /\ last.resp.confidence = 7

\* C9: a call the breaker permits sends exactly one HTTP request, and when
\* the request settles exactly one outcome is recorded on the breaker of its
\* dependency: a success for a 2xx JSON body, one failure for a timeout, a
\* connection error, a non-2xx status or any other exception.
C9_OneAttemptOneRecord ==
    /\ \A ev \in Events : ev.permit => ev.http = 1
    /\ last.return.svc # "none" =>
         LET r == last.return IN
         /\ r.succ + r.fail = 1
         /\ r.kind = "ok" <=> r.succ = 1
         /\ r.kind \in {"timeout", "request_error", "http_status", "unexpected"}
               <=> r.fail = 1
         /\ r.fail = 1 =>
               /\ circuit_breaker[r.svc].failures = r.pre.failures + 1
               /\ last.data[r.svc] = NoneBody
         /\ r.succ = 1 => circuit_breaker[r.svc].failures = 0

\* A call answered with a non-2xx status recorded its one failure.
C9_Witness ==
    /\ last.return.kind = "http_status" /\ last.return.fail = 1
    /\ circuit_breaker[last.return.svc].failures = 2

\* What generate_response does on the inputs of the response just returned.
Synthesis ==
    generate_response(rlast.query, rlast.result["hospital"],
                      rlast.result["insurance"], rlast.status)

\* C6: POST /query of the orchestrator never lets an exception out.  Whatever
\* became of the two dependency calls (skipped, answered, failed, timed
\* out), it returns a response with status, answer, sources and confidence;
\* when generate_response raises the response has status 'error',
\* confidence 0 and the fixed apology, and in every other case it has
\* status 'success'.
C6_NeverPropagates ==
    rlast.op = "respond" =>
        /\ DOMAIN rlast.resp = {"status", "answer", "sources", "confidence"}
        /\ Synthesis.raises =>
              /\ rlast.resp.status = "error"
              /\ rlast.resp.confidence = 0
              /\ rlast.resp.answer = <<"I'm experiencing some technical difficulties">>
        /\ ~Synthesis.raises => rlast.resp.status = "success"

\* A query whose hospital call timed out and whose insurance call answered
\* with an item that cannot be rendered gets the 'error' response.
C6_Witness ==
    /\ rlast.op = "respond"
    /\ rlast.calls["hospital"] = "timeout"
    /\ rlast.calls["insurance"] = "returned"
    /\ Synthesis.raises
    /\ rlast.resp.status = "error"

\* C10: once 3 orchestrator calls in a row to a dependency have failed or
\* timed out while its health flag stayed true, the orchestrator sends no
\* further request to that dependency before the cooldown has elapsed.  The
\* clock stands still in SpecRag, so no cooldown elapses.
C10_FanOutGatedByBreaker ==
    rlast.op = "dispatch" => rlast.tripped = {}

\* The /query request answered in the last step found dependency d flagged
\* unhealthy when it dispatched its calls.
SkippedAtDispatch(d) == rlast.op = "respond" /\ rlast.calls[d] = "skipped"

BothUnavailableApology ==
    /\ rlast.resp.status = "success"
    /\ rlast.resp.confidence = 1
    /\ rlast.resp.answer = <<"healthcare services are temporarily unavailable">>

\* C11: a query that finds both data dependencies flagged unhealthy, when it
\* dispatches its calls or when it builds its answer, is answered with
\* confidence 0.1 and the apology that the healthcare services are
\* temporarily unavailable, whatever the query and however the health
\* monitor interleaves with it.
C11_BothUnhealthyApology ==
    rlast.op = "respond" =>
        /\ (\A d \in DataServices : SkippedAtDispatch(d)) => BothUnavailableApology
        /\ (\A d \in DataServices : ~rlast.status[d]) => BothUnavailableApology

\* The call of the /query request answered in the last step to dependency d
\* was skipped, or failed with one of the exceptions safe_service_call
\* catches.
NoResult(d) == rlast.calls[d] = "skipped" \/ rlast.calls[d] \in FailureKinds

Unavailable(d) == [available |-> FALSE, data |-> Placeholder(d)]

\* C12: every answer has status 'success', and for each data
\* dependency sources[dep] is unavailable with the placeholder exactly when
\* its call was skipped, failed or timed out, and available with the
\* returned payload when the call succeeded.
C12_AvailableWithPayload ==
    rlast.op = "respond" =>
        /\ rlast.resp.status = "success"
        /\ \A d \in DataServices :
             rlast.resp.sources[d] =
                IF NoResult(d) THEN Unavailable(d)
                ELSE [available |-> TRUE, data |-> rlast.result[d]]

\* C12, what process_query does: unless generate_response raises, the answer
\* has status 'success' (also when both calls failed), and for each data
\* dependency sources[dep] is unavailable with the placeholder exactly when
\* its call was skipped, failed or timed out; a call that succeeded is
\* reported available, with the returned payload when that is a non-empty
\* object and with the 'unavailable' placeholder when it is the empty object.
C12_AvailableWithPayloadUnlessEmpty ==
    rlast.op = "respond" =>
        IF Synthesis.raises
        THEN rlast.resp.status = "error"
        ELSE /\ rlast.resp.status = "success"
             /\ \A d \in DataServices :
                  rlast.resp.sources[d] =
                     IF NoResult(d) THEN Unavailable(d)
                     ELSE [available |-> TRUE,
                           data |-> IF rlast.result[d] = EmptyBody
                                    THEN Placeholder(d) ELSE rlast.result[d]]

\* Both calls were sent and both failed: the answer has status 'success'
\* and reports both dependencies unavailable.
C12_Witness ==
    /\ rlast.op = "respond"
    /\ \A d \in DataServices : rlast.calls[d] \in FailureKinds
    /\ rlast.resp.status = "success"
    /\ \A d \in DataServices : rlast.resp.sources[d] = Unavailable(d)

\* The query answered in the last step matches the hospital vocabulary, the
\* insurance vocabulary.
MatchesHospital ==
    \E word \in HospitalWords : Contains(Lower(rlast.query), word)

MatchesInsurance ==
    \E word \in InsuranceWords : Contains(Lower(rlast.query), word)

\* Dependency d returned a status-'success' body with at least one item, and
\* the items rendered (the first three) have the keys rendered.
ReturnedItems(d) ==
    /\ rlast.result[d].status = "success"
    /\ rlast.result[d].data # <<>>

WellFormed(d) ==
    \A k \in 1..Len(rlast.result[d].data) :
        k <= 3 => rlast.result[d].data[k] # "bad"

InAnswer(part) ==
    \E i \in 1..Len(rlast.resp.answer) : rlast.resp.answer[i] = part

\* C13: a query that matches the hospital vocabulary and not the insurance
\* vocabulary, for which hospital returned a successful non-empty result and
\* insurance returned no item, is answered with confidence 0.4 exactly; the
\* answer holds each of the first three hospitals returned, none beyond the
\* third, and no text about insurance being unavailable.
C13_HospitalOnlyAnswer ==
    ( /\ rlast.op = "respond"
      /\ MatchesHospital /\ ~MatchesInsurance
      /\ ReturnedItems("hospital") /\ WellFormed("hospital")
      /\ ~ReturnedItems("insurance") )
    => /\ rlast.resp.status = "success"
       /\ rlast.resp.confidence = 4
       /\ \A k \in 1..Len(rlast.result["hospital"].data) :
            InAnswer(rlast.result["hospital"].data[k]) <=> k <= 3
       /\ ~InAnswer("Insurance information is currently unavailable")
       /\ ~InAnswer("healthcare services are temporarily unavailable")

\* 'Find cardiology hospital' with four hospitals returned and the insurance
\* call timed out.
C13_Witness ==
    /\ rlast.op = "respond"
    /\ MatchesHospital /\ ~MatchesInsurance
    /\ Len(rlast.result["hospital"].data) = 4
    /\ rlast.calls["insurance"] = "timeout"
    /\ rlast.resp.confidence = 4

\* The number of requests the last step sent to dependency d.
Requests(d) == Cardinality({i \in 1..Len(rlast.sent) : rlast.sent[i] = d})

\* C14: when process_query dispatches, a dependency whose flag is false gets
\* no request and its result is None, up to the answer; a dependency whose
\* flag is true gets exactly one request.  No later step of the query sends
\* a request.
C14_SkipUnhealthyCallHealthyOnce ==
    /\ rlast.op = "dispatch" =>
          /\ \A d \in DataServices :
                Requests(d) = IF rlast.status[d] THEN 1 ELSE 0
          /\ \E h \in BagToSet(rquery) :
                /\ h.query = rlast.query
                /\ \A d \in DataServices :
                      ~rlast.status[d] => h.result[d] = NoneBody
    /\ rlast.op # "dispatch" => rlast.sent = <<>>
    /\ rlast.op = "respond" =>
          \A d \in DataServices :
              rlast.calls[d] = "skipped" => rlast.result[d] = NoneBody

\* A query dispatched while hospital is flagged healthy and insurance is
\* not: one request, to hospital.
C14_Witness ==
    /\ rlast.op = "dispatch"
    /\ rlast.status["hospital"] /\ ~rlast.status["insurance"]
    /\ rlast.sent = <<"hospital">>

\* C15: a query dispatched while both dependencies are flagged healthy has
\* both requests in flight at once, the second sent before the first
\* settles; the query is still waiting after one of them has settled,
\* whichever settles first, and its answer is built only when every call
\* sent has settled.
C15_ConcurrentThenJoin ==
    /\ ( rlast.op = "dispatch" /\ \A d \in DataServices : rlast.status[d] )
       => /\ rlast.sent = DataOrder
          /\ \E h \in BagToSet(rquery) :
                /\ h.query = rlast.query
                /\ \A d \in DataServices : h.calls[d] = "inflight"
    /\ rlast.op = "settle"
       => \E h \in BagToSet(rquery) :
             h.query = rlast.query /\ h.calls = rlast.calls
    /\ rlast.op = "respond"
       => \A d \in DataServices :
             rlast.calls[d] # "inflight" /\ rlast.result[d] # UnsetBody

\* Both requests were sent and insurance, sent second, has settled first:
\* the query still waits for hospital.
C15_Witness ==
    /\ rlast.op = "settle"
    /\ rlast.calls["insurance"] = "returned"
    /\ rlast.calls["hospital"] = "inflight"
    /\ \E h \in BagToSet(rquery) : h.calls = rlast.calls

\* The answer holds the text of dependency d: its header line, which gives
\* the number of items returned.
Included(d) ==
    InAnswer(Header(IF d = "hospital" THEN "hospitals" ELSE "insurance plans",
                    Len(rlast.result[d].data)))

Advisory == InAnswer("contact the providers directly")

\* C16: an answer that holds the text of at least one dependency has
\* confidence 0.4 and no advisory sentence if exactly one dependency
\* returned a non-empty successful result, and confidence 0.9 and the
\* advisory sentence if both did; every answer has a confidence among 0,
\* 0.1, 0.2, 0.3, 0.4 and 0.9.
C16_ConfidenceValues ==
    rlast.op = "respond" =>
        /\ rlast.resp.confidence \in {0, 1, 2, 3, 4, 9}
        /\ ( rlast.resp.status = "success"
             /\ \E d \in DataServices : Included(d) )
           => IF \A d \in DataServices : ReturnedItems(d)
              THEN rlast.resp.confidence = 9 /\ Advisory
              ELSE rlast.resp.confidence = 4 /\ ~Advisory

\* Both dependencies returned items and the answer has confidence 0.9 and
\* the advisory sentence.
C16_Witness ==
    /\ rlast.op = "respond"
    /\ \A d \in DataServices : ReturnedItems(d) /\ Included(d)
    /\ rlast.resp.confidence = 9
    /\ Advisory

\* The query favours dependency d: it matches the vocabulary of d or does
\* not match the vocabulary of the other dependency.
Favoured(d) ==
    IF d = "hospital" THEN MatchesHospital \/ ~MatchesInsurance
                      ELSE MatchesInsurance \/ ~MatchesHospital

\* The number of lines the text of dependency d takes in the answer: its
\* header and at most three items.
TextLines(d) ==
    IF Included(d) THEN 1 + Min(3, Len(rlast.result[d].data)) ELSE 0

\* C17: the answer holds the text of a dependency, its header and at most
\* three of its items, if and only if the dependency returned a non-empty
\* successful result and the query matches its vocabulary or does not match
\* the vocabulary of the other one.  A query matching both vocabularies or
\* neither leaves out no dependency that returned items; a query matching
\* one vocabulary only leaves out the other dependency.
C17_IntentInclusion ==
    ( rlast.op = "respond" /\ rlast.resp.status = "success" ) =>
        /\ \A d \in DataServices :
              Included(d) <=> ReturnedItems(d) /\ Favoured(d)
        /\ rlast.query \in {BothQuery, NeitherQuery} =>
              \A d \in DataServices : Included(d) <=> ReturnedItems(d)
        /\ rlast.query = HospitalQuery => ~Included("insurance")
        /\ rlast.query = InsuranceQuery => ~Included("hospital")
        /\ (\E d \in DataServices : Included(d)) =>
              Len(rlast.resp.answer) =
                 TextLines("hospital") + TextLines("insurance")
                 + IF Advisory THEN 1 ELSE 0

\* 'Cheap Insurance Plan' with four items returned by each dependency: the
\* answer holds the insurance header, three plans and the advisory sentence,
\* and nothing of the hospitals.
C17_Witness ==
    /\ rlast.op = "respond"
    /\ rlast.query = InsuranceQuery
    /\ \A d \in DataServices : Len(rlast.result[d].data) = 4
    /\ Included("insurance") /\ ~Included("hospital")
    /\ Len(rlast.resp.answer) = 5

\* The fallback generate_response selects from the flags it reads.
Fallback(hospital, insurance) ==
    IF ~hospital /\ ~insurance
    THEN [confidence |-> 1,
          answer |-> <<"healthcare services are temporarily unavailable">>]
    ELSE IF ~hospital
    THEN [confidence |-> 2,
          answer |-> <<"Hospital information is currently unavailable">>]
    ELSE IF ~insurance
    THEN [confidence |-> 2,
          answer |-> <<"Insurance information is currently unavailable">>]
    ELSE [confidence |-> 3,
          answer |-> <<"our services are available, please rephrase">>]

\* C18: an answer that holds the text of no dependency is the fallback the
\* health flags select when the answer is built: confidence 0.1 with both
\* flagged unhealthy, 0.2 with hospital only, 0.2 with insurance only, 0.3
\* with neither; what a dependency left out by the intent rule would have
\* added to the confidence is dropped.
C18_FallbackByFlags ==
    ( /\ rlast.op = "respond"
      /\ rlast.resp.status = "success"
      /\ \A d \in DataServices : ~Included(d) )
    => LET f == Fallback(rlast.status["hospital"], rlast.status["insurance"])
       IN /\ rlast.resp.confidence = f.confidence
          /\ rlast.resp.answer = f.answer

\* 'Cheap Insurance Plan' for which only hospital returned items, with both
\* flags true when the answer is built: the hospitals are left out and the
\* answer is the fallback with confidence 0.3.
C18_Witness ==
    /\ rlast.op = "respond"
    /\ rlast.query = InsuranceQuery
    /\ ReturnedItems("hospital") /\ ~ReturnedItems("insurance")
    /\ \A d \in DataServices : rlast.status[d]
    /\ rlast.resp.confidence = 3

\* A round of health checks, of the monitor or of /refresh-services, has
\* assigned the hospital flag and not yet the insurance flag.
MidTick ==
    \/ monitor.pc = "loop" /\ monitor.at = 2
    \/ refresh.pc = "check" /\ refresh.at = 2

\* C19: the flags are replaced together on every round of health checks: no
\* /query request reads them, when it dispatches or when it builds its
\* answer, at a point where the hospital flag is of the current round and
\* the insurance flag still of the previous one.
C19_SnapshotNeverTorn ==
    rlast.op \in {"dispatch", "respond"} => ~MidTick

\* startup_event hands over to monitor_services only from its last health
\* check.
LoopStartsAfterStartupPolls ==
    (monitor.pc = "startup" /\ monitor'.pc # "startup")
    => /\ monitor.at = Len(DataOrder)
       /\ rlast'.op = "health" /\ rlast'.dep = DataOrder[Len(DataOrder)]
       /\ monitor'.pc = "loop"

\* A health check that fails sets the flag of its dependency to false and
\* changes no other flag; the monitor goes on to its next check or sleep.
FailedPollOnlyClearsFlag ==
    (rlast'.op = "health" /\ ~rlast'.ok)
    => /\ service_status' = [service_status EXCEPT ![rlast'.dep] = FALSE]
       /\ monitor'.pc \in {"startup", "loop", "sleep"}

\* C20: both dependencies are polled at startup before the monitor loop is
\* started; a poll that fails only sets the flag of its dependency to false
\* and the loop goes on, round after round, forever; a dependency that
\* becomes reachable and stays so has its flag true eventually.
C20_MonitorKeepsPolling ==
    /\ [][LoopStartsAfterStartupPolls]_vars
    /\ [][FailedPollOnlyClearsFlag]_vars
    /\ []<>(monitor.pc = "sleep")
    /\ []<>(monitor.pc = "loop")
    /\ \A d \in DataServices : (reach[d] = "up") ~> service_status[d]

\* A round of the loop has ended in which the insurance poll failed, and
\* hospital, reachable for good, is flagged healthy.
C20_Witness ==
    /\ monitor.pc = "sleep"
    /\ rlast.op = "health" /\ rlast.dep = "insurance" /\ ~rlast.ok
    /\ reach["hospital"] = "up" /\ service_status["hospital"]
    /\ ~service_status["insurance"]

\* A call to dependency s was admitted in the last step by the cooldown
\* reset of its open breaker: the trial call, which is now in flight.
TrialAdmitted(s) ==
    \E ev \in Events : ev.svc = s /\ ev.pre.open /\ ev.permit

\* C21: after the cooldown of an open breaker has admitted a trial call, a
\* request that arrives while the trial is in flight is not permitted to call
\* the same dependency, and when the trial fails should_call_service denies
\* calls to that dependency again.
C21_HalfOpenProbe ==
    [][\A s \in ServiceNames :
          TrialAdmitted(s) /\ BagCardinality(handler) = 1 =>
              /\ last'.op = "start" =>
                    \A i \in 1..Len(last'.events) :
                        last'.events[i].svc = s => ~last'.events[i].permit
              /\ last'.op = "complete" /\ last'.return.fail = 1 =>
                    ~should_call_service(circuit_breaker', s, now').ret]_vars

\* C22: an open breaker keeps denying calls to its dependency through every
\* step that is not the admin reset, calls admitted before it opened that
\* complete meanwhile included, as long as no more than 60 seconds have
\* passed since its last failure.
C22_OpenForCooldown ==
    [][\A s \in ServiceNames :
          /\ circuit_breaker[s].open
          /\ circuit_breaker[s].last_failure # NoTime
          /\ last'.op # "reset"
          /\ now' - circuit_breaker[s].last_failure[1] <= 60
          => ~should_call_service(circuit_breaker', s, now').ret]_vars

\* C23: under every interleaving of requests the failure count of each
\* breaker equals the number of failures recorded for its dependency since
\* its last reset by a success, by the cooldown or by the admin.
C23_NoLostUpdate ==
    \A s \in ServiceNames : circuit_breaker[s].failures = recorded[s]

\* The third failure in a row was recorded for a dependency while another
\* call to it, admitted before, is still in flight.
C23_Witness ==
    /\ last.return.fail = 1
    /\ recorded[last.return.svc] = 3
    /\ circuit_breaker[last.return.svc].open
    /\ \E h \in BagToSet(handler) : h.svc = last.return.svc

\* C24: in the fallback of /api/query the insurance call is dispatched in
\* the same step as the hospital call, before the hospital request settles.
C24_FallbackInParallel ==
    \A ev \in Events :
        last.kind = "query" /\ ev.svc = "hospital" /\ ev.permit =>
            \E ev2 \in Events : ev2.svc = "insurance"

\* C25: every breaker is open exactly when its failure count is at least 3,
\* an open breaker has a last failure time, and once more than 60 seconds
\* have passed since that time should_call_service permits the call.
C25_NeverStuckOpen ==
    \A s \in ServiceNames :
        /\ circuit_breaker[s].open <=> circuit_breaker[s].failures >= 3
        /\ circuit_breaker[s].open =>
              /\ circuit_breaker[s].last_failure # NoTime
              /\ now - circuit_breaker[s].last_failure[1] > 60 =>
                    should_call_service(circuit_breaker, s, now).ret

\* A breaker that opened at its third failure was found open more than 60
\* seconds later and should_call_service permitted the call.
C25_Witness ==
    \E ev \in Events :
        /\ ev.pre.open /\ ev.pre.failures = 3 /\ ev.permit
        /\ now - ev.pre.last_failure[1] > 60
        /\ ~circuit_breaker[ev.svc].open

\* C26: a query whose calls to both data dependencies were sent and both
\* failed or timed out, answered while both health flags are true, reports
\* both sources unavailable and yet answers that the services are available
\* and asks to rephrase, with confidence 0.3.
C26_FailedYetAvailable ==
    ( /\ rlast.op = "respond"
      /\ \A d \in DataServices :
            rlast.calls[d] \in FailureKinds /\ rlast.status[d] )
    => /\ rlast.resp.status = "success"
       /\ \A d \in DataServices : rlast.resp.sources[d] = Unavailable(d)
       /\ rlast.resp.confidence = 3
       /\ rlast.resp.answer = <<"our services are available, please rephrase">>

\* The hospital call timed out and the insurance call was answered with an
\* HTTP error status, with both flags true when the answer is built.
C26_Witness ==
    /\ rlast.op = "respond"
    /\ rlast.calls["hospital"] = "timeout"
    /\ rlast.calls["insurance"] = "http_status"
    /\ \A d \in DataServices : rlast.status[d]
    /\ \A d \in DataServices : ~rlast.resp.sources[d].available

\* The step to the next state ran should_call_service for dependency s on
\* an open breaker.
CheckedOpen(s) ==
    \E i \in 1..Len(last'.events) :
        last'.events[i].svc = s /\ last'.events[i].pre.open

\* The step to the next state recorded a failure for dependency s, or a
\* success on a breaker of s with failures above 0.
RecordedChange(s) ==
    /\ last'.return.svc = s
    /\ \/ last'.return.fail = 1
       \/ last'.return.succ = 1 /\ last'.return.pre.failures > 0

\* C27: a step of a request handler leaves the breaker of a dependency as it
\* was unless it recorded a failure for that very dependency, recorded a
\* success for it with failures above 0, or checked it while it was open:
\* what is done for another dependency, a success recorded at failures 0 and
\* a check of a closed breaker change nothing.
C27_BreakersIndependent ==
    [][last'.op \in {"start", "complete"} =>
          \A s \in ServiceNames :
              ~CheckedOpen(s) /\ ~RecordedChange(s) =>
                  circuit_breaker'[s] = circuit_breaker[s]]_vars

\* A success was recorded on a breaker with failures 0 while the breakers of
\* the two other dependencies are open.
C27_Witness ==
    /\ last.op = "complete"
    /\ last.return.succ = 1 /\ last.return.pre.failures = 0
    /\ \A s \in ServiceNames \ {last.return.svc} : circuit_breaker[s].open

====
